---- MODULE Spec2Model ----
(***************************************************************************)
(* Model of the CareChain dashboard's offline queue and sync engine        *)
(* (frontend/pages/dashboard.js, first version in the file) together with  *)
(* the AuthContext provider that supplies its bearer token.                *)
(*                                                                         *)
(* Every await in the source is a suspension point; an action of the model *)
(* is the code that runs between two suspension points.  Outcomes of       *)
(* network calls and IndexedDB calls are inputs drawn by \E.               *)
(*                                                                         *)
(* Ghost fields: every submitted form gets a unique "uid" which follows    *)
(* the record through the pending store, the POST payload and the server's *)
(* response, so that duplication and loss can be stated.                   *)
(***************************************************************************)
EXTENDS Integers, Sequences, FiniteSets, TLC

\* ---------------------------------------------------------------- bounds
MaxCreates == 3     \* SyncSpec: form submissions per behaviour
MaxPasses == 2      \* SyncSpec: sync passes started per behaviour
SessionCreates == 1 \* Spec: form submissions per behaviour
SessionPasses == 1  \* Spec: sync passes started per page load
MaxLogins == 1      \* Spec: tokens issued by the server per behaviour
MaxReloads == 1     \* Spec: full page reloads per behaviour

\* ------------------------------------------------------------- constants
NoToken == 0                    \* token: null
InitialIsOnline == TRUE         \* useState(true)
InitialSyncStatus == "up-to-date"   \* useState('up-to-date')

VARIABLES
    navOnline,      \* navigator.onLine
    clock,          \* the value the latest Date.now() call returned
    server,         \* records accepted by POST /patients, in order
    validTokens,    \* tokens the backend still accepts
    nextTok,        \* next token the backend issues
    storedToken,    \* authToken in localStorage / sessionStorage
    auth,           \* AuthProvider authState
    page,           \* "login" | "dashboard"
    closureToken,   \* token captured by the mount effect's handleOnline
    isOnline,       \* DashboardPage state
    syncStatus,     \* DashboardPage state
    patients,       \* DashboardPage state
    pendingStore,   \* IndexedDB object store 'pending'  (key -> record)
    patientsStore,  \* IndexedDB object store 'patients' (key -> record)
    passes,         \* invocations of syncPendingPatients
    creates,        \* invocations of handlePatientSubmit in flight
    fetches,        \* invocations of fetchPatients in flight
    nextUid,        \* ghost: forms submitted so far
    savedLocal,     \* ghost: uids whose offline create reported success, in that order
    listSignal,     \* what the latest finished fetchPatients surfaced
    formToast,      \* what the latest rejected form submission surfaced
    syncCall,       \* how handleOnline's latest syncPendingPatients() call went
    deleted,        \* server ids of the records deleted at the backend
    verify,         \* initializeAuth's authFetch('/auth/verify') call
    reloads         \* ghost: page reloads so far

vars == <<navOnline, clock, server, validTokens, nextTok, storedToken, auth,
          page, closureToken, isOnline, syncStatus, patients, pendingStore,
          patientsStore, passes, creates, fetches, nextUid, savedLocal, listSignal, formToast, syncCall,
          deleted, verify, reloads>>

envVars   == <<navOnline, clock, validTokens, nextTok>>
authVars  == <<storedToken, auth, page, closureToken>>
dashVars  == <<isOnline, syncStatus, patients>>
storeVars == <<pendingStore, patientsStore>>

\* --------------------------------------------------------------- records
TempId(t)   == [kind |-> "offline", n |-> t]     \* `offline-${Date.now()}`
ServerId(n) == [kind |-> "server", n |-> n]
NoRecord    == [uid |-> 0, id |-> [kind |-> "none", n |-> 0], offline |-> FALSE]

\* variant: a local record that does not carry the offline flag
OfflinePatientUnflagged(uid, now) == [uid |-> uid, id |-> TempId(now), offline |-> FALSE]

\* handlePatientSubmit: offlinePatient = {...patientData, id, fullName, offline: true}
OfflinePatient(uid, now) == [uid |-> uid, id |-> TempId(now), offline |-> TRUE]

\* the backend's response to an accepted POST /patients
ServerRecord(uid, n) == [uid |-> uid, id |-> ServerId(n), offline |-> FALSE]

\* ----------------------------------------------------------- Local Store
\* db.put(store, record): upsert by keyPath 'id'
Put(store, rec) ==
    [k \in (DOMAIN store) \cup {rec.id.n} |-> IF k = rec.id.n THEN rec ELSE store[k]]

\* db.delete(store, key): deleting an absent key succeeds
Delete(store, key) == [k \in (DOMAIN store) \ {key} |-> store[k]]

RECURSIVE SortedKeys(_)
SortedKeys(S) ==
    IF S = {} THEN <<>>
    ELSE LET m == CHOOSE x \in S : \A y \in S : x <= y
         IN  <<m>> \o SortedKeys(S \ {m})

\* db.getAll(store): every record, in ascending key order
GetAll(store) ==
    LET ks == SortedKeys(DOMAIN store)
    IN  [i \in 1..Len(ks) |-> store[ks[i]]]

EmptyStore == [k \in {} |-> NoRecord]

\* ---------------------------------------------------------------- helpers
Mounted == page = "dashboard"

\* outcome of a request carrying token tok, as the client sees it
RequestOutcomes(tok) ==
    IF ~navOnline THEN {"fail"}
    ELSE {"fail"} \cup (IF tok \in validTokens THEN {"ok"} ELSE {"401"})

\* useEffect(() => { if (isAuthenticated && token) fetchPatients() }, [isAuthenticated, token])
StartFetch(tok) == [pc |-> "get", tok |-> tok, data |-> <<>>, got |-> FALSE, live |-> TRUE]

LoggedOut == [token |-> NoToken, isAuthenticated |-> FALSE, isLoading |-> FALSE]

\* unmounting DashboardPage: async functions already running keep running,
\* their setState calls no longer have an effect
Detach(ps) == [i \in 1..Len(ps) |-> [ps[i] EXCEPT !.live = FALSE]]
DetachSet(cs) == {[c EXCEPT !.live = FALSE] : c \in cs}

\* authFetch(endpoint, options, retries = 2)
DefaultRetries == 2

\* no authFetch call has been made
NoCall == [pc |-> "idle", tok |-> NoToken, retries |-> 0, seen |-> <<>>, error |-> "none"]

\* authFetch up to its await fetch(...): the request carries the bearer token
\* ghost: seen is the outcome of every attempt of the call so far
AuthFetch(tok, retries) ==
    [pc |-> "fetch", tok |-> tok, retries |-> retries, seen |-> <<>>, error |-> "none"]

\* how an attempt of authFetch can end: as any request, or by the 8 s timer
\* aborting it
AttemptOutcomes(tok) == RequestOutcomes(tok) \cup {"aborted"}

Init ==
    /\ navOnline = TRUE
    /\ clock = 0
    /\ server = <<>>
    /\ validTokens = {}
    /\ nextTok = 1
    /\ storedToken = NoToken
    /\ auth = LoggedOut
    /\ page = "login"
    /\ closureToken = NoToken
    /\ isOnline = InitialIsOnline
    /\ syncStatus = InitialSyncStatus
    /\ patients = <<>>
    /\ pendingStore = EmptyStore
    /\ patientsStore = EmptyStore
    /\ passes = <<>>
    /\ creates = {}
    /\ fetches = {}
    /\ nextUid = 1
    /\ savedLocal = <<>>
    /\ listSignal = "none"
    /\ formToast = "none"
    /\ syncCall = "none"
    /\ deleted = {}
    /\ verify = NoCall
    /\ reloads = 0

\* ------------------------------------------------------------ environment
\* values Date.now() can return when the previous call returned `last`:
\* the same millisecond or a later one (one later value stands for all of them)
Now(last) == {last, last + 1}

\* the backend stops accepting the issued tokens (JWT expiry)
ExpireSession ==
    /\ validTokens # {}
    /\ validTokens' = {}
    /\ UNCHANGED <<navOnline, clock, server, nextTok, authVars, dashVars,
                   storeVars, passes, creates, fetches, nextUid, listSignal, formToast, syncCall, savedLocal, deleted, verify, reloads>>

\* --------------------------------------------------------- syncPendingPatients
\* variant: a guard that does not look at the token
SyncGuardIgnoresToken(closIsOnline, closToken) == ~closIsOnline

\* the pass as handleOnline's closure runs it up to its first await:
\*   if (!isOnline || !token) return ; setSyncStatus('syncing') ; await initDB()
\* isOnline and token are the values of the render that registered the handler
SyncGuardReturns(closIsOnline, closToken) == ~closIsOnline \/ closToken = NoToken

NewPass(tok) ==
    [pc |-> "load", tok |-> tok, live |-> TRUE, pending |-> <<>>, idx |-> 0,
     synced |-> <<>>, resp |-> NoRecord,
     \* ghost: uids POSTed, uids whose POST was accepted, uids deleted from
     \* pending, the HTTP outcome of the latest POST, what made the pass stop,
     \* the status the pass had set when it returned
     posted |-> <<>>, accepted |-> <<>>, removed |-> <<>>, http |-> "none",
     failure |-> "none", endStatus |-> "none"]

\* window 'offline' event: handleOffline
GoOffline ==
    /\ navOnline
    /\ navOnline' = FALSE
    /\ isOnline' = IF Mounted THEN FALSE ELSE isOnline
    /\ UNCHANGED <<clock, server, validTokens, nextTok, authVars, syncStatus, patients,
                   storeVars, passes, creates, fetches, nextUid, listSignal, formToast, syncCall, savedLocal, deleted, verify, reloads>>

\* variant: a handler that calls the sync engine a second time
InvokeSyncTwice(ps, tok) == Append(Append(ps, NewPass(tok)), NewPass(tok))

\* the single syncPendingPatients() call of handleOnline, past its guard
InvokeSync(ps, tok) == Append(ps, NewPass(tok))

\* window 'online' event: handleOnline = setIsOnline(true); syncPendingPatients()
GoOnline(maxPasses) ==
    /\ ~navOnline
    /\ navOnline' = TRUE
    /\ IF ~Mounted
       THEN UNCHANGED <<isOnline, syncStatus, passes, syncCall>>
       ELSE /\ isOnline' = TRUE
            /\ IF SyncGuardReturns(InitialIsOnline, closureToken)
               THEN /\ syncCall' = "returned"
                    /\ UNCHANGED <<syncStatus, passes>>
               ELSE /\ Len(passes) < maxPasses
                    /\ syncCall' = "started"
                    /\ syncStatus' = "syncing"
                    /\ passes' = InvokeSync(passes, closureToken)
    /\ UNCHANGED <<clock, server, validTokens, nextTok, authVars, patients,
                   storeVars, creates, fetches, nextUid, listSignal, formToast, savedLocal, deleted, verify, reloads>>

\* the code after the for loop (lines 150-154), run by pass p
\*   if (synced.length > 0) setPatients(prev => [...prev.filter(p => !p.offline), ...synced])
\*   setSyncStatus('up-to-date')
MergeSynced(prev, synced) ==
    IF Len(synced) > 0
    THEN SelectSeq(prev, LAMBDA q : ~q.offline) \o synced
    ELSE prev

StatusAfterLoop(failure) == "up-to-date"

FinishPass(i, p) ==
    /\ passes' = [passes EXCEPT ![i] =
                    [p EXCEPT !.pc = "done", !.endStatus = StatusAfterLoop(p.failure)]]
    /\ IF p.live
       THEN /\ patients' = MergeSynced(patients, p.synced)
            /\ syncStatus' = StatusAfterLoop(p.failure)
       ELSE UNCHANGED <<patients, syncStatus>>

\* variant: the empty-queue return forgets to reset the status
StatusOnEmptyQueueStale == "syncing"

\* if (pending.length === 0) { setSyncStatus('up-to-date'); return }
StatusOnEmptyQueue == "up-to-date"

\* const db = await initDB(); const pending = await db.getAll('pending')
\* then either the empty-queue return or the first POST is issued
PassLoad(i, ok) ==
    /\ passes[i].pc = "load"
    /\ LET p == passes[i]
           pending == GetAll(pendingStore)
       IN  IF ~ok
           THEN \* outer catch: setSyncStatus('error')
                /\ passes' = [passes EXCEPT ![i] = [p EXCEPT !.pc = "done", !.failure = "load", !.endStatus = "error"]]
                /\ syncStatus' = IF p.live THEN "error" ELSE syncStatus
           ELSE IF Len(pending) = 0
           THEN /\ passes' = [passes EXCEPT ![i] = [p EXCEPT !.pc = "done", !.endStatus = StatusOnEmptyQueue]]
                /\ syncStatus' = IF p.live THEN StatusOnEmptyQueue ELSE syncStatus
           ELSE /\ passes' = [passes EXCEPT ![i] =
                        [p EXCEPT !.pc = "post", !.pending = pending, !.idx = 1,
                                  !.posted = <<pending[1].uid>>]]
                /\ UNCHANGED syncStatus
    /\ UNCHANGED <<envVars, server, authVars, isOnline, patients, storeVars,
                   creates, fetches, nextUid, listSignal, formToast, syncCall, savedLocal, deleted, verify, reloads>>

\* variant: a loop that skips the failed record and goes on with the next one
NextAfterFailureSkip(idx, len) == IF idx < len THEN idx + 1 ELSE 0

\* what the loop does when an iteration throws (inner catch):
\*   setSyncStatus('error'); toast.error(...); break
\* returns the index of the next record to POST, 0 when the loop is left
NextAfterFailure(idx, len) == 0

\* the response of the POST of pending[idx] arrives
PassPostDone(i, outcome) ==
    /\ passes[i].pc = "post"
    /\ outcome \in RequestOutcomes(passes[i].tok)
    /\ LET p == passes[i]
           rec == p.pending[p.idx]
       IN  IF outcome = "ok"
           THEN /\ server' = Append(server, ServerRecord(rec.uid, Len(server) + 1))
                /\ passes' = [passes EXCEPT ![i] =
                        [p EXCEPT !.pc = "delete", !.http = outcome,
                                  !.accepted = Append(p.accepted, rec.uid),
                                  !.resp = ServerRecord(rec.uid, Len(server) + 1)]]
                /\ UNCHANGED <<patients, syncStatus>>
           ELSE /\ UNCHANGED server
                /\ LET nxt == NextAfterFailure(p.idx, Len(p.pending))
                       q == [p EXCEPT !.failure = "post", !.http = outcome]
                   IN  IF nxt = 0
                       THEN FinishPass(i, q)
                       ELSE /\ passes' = [passes EXCEPT ![i] =
                                   [q EXCEPT !.idx = nxt,
                                             !.posted = Append(p.posted, p.pending[nxt].uid)]]
                            /\ syncStatus' = IF p.live THEN "error" ELSE syncStatus
                            /\ UNCHANGED patients
    /\ UNCHANGED <<envVars, authVars, isOnline, storeVars,
                   creates, fetches, nextUid, listSignal, formToast, syncCall, savedLocal, deleted, verify, reloads>>

\* await db.delete('pending', patient.id) settles; synced.push(response.data)
PassDeleteDone(i, ok) ==
    /\ passes[i].pc = "delete"
    /\ LET p == passes[i]
           rec == p.pending[p.idx]
       IN  IF ok
           THEN /\ pendingStore' = Delete(pendingStore, rec.id.n)
                /\ LET q == [p EXCEPT !.synced = Append(p.synced, p.resp),
                                      !.removed = Append(p.removed, rec.uid),
                                      !.resp = NoRecord]
                   IN  IF p.idx < Len(p.pending)
                       THEN /\ passes' = [passes EXCEPT ![i] =
                                   [q EXCEPT !.pc = "post", !.idx = p.idx + 1,
                                             !.posted = Append(p.posted, p.pending[p.idx + 1].uid)]]
                            /\ UNCHANGED <<patients, syncStatus>>
                       ELSE FinishPass(i, q)
           ELSE \* the rejection is caught by the same inner catch as a POST failure
                /\ UNCHANGED pendingStore
                /\ FinishPass(i, [p EXCEPT !.resp = NoRecord, !.failure = "delete"])
    /\ UNCHANGED <<envVars, server, authVars, isOnline, patientsStore,
                   creates, fetches, nextUid, listSignal, formToast, syncCall, savedLocal, deleted, verify, reloads>>

\* --------------------------------------------------------- handlePatientSubmit
\* logout() of the AuthProvider followed by router.push('/login')
LogoutEffects ==
    /\ storedToken' = NoToken
    /\ auth' = LoggedOut
    /\ page' = "login"
    /\ closureToken' = NoToken

\* the values a required form field is submitted with: left empty or filled in
Field == {"", "x"}
Drafts == [fullName : Field, age : Field, condition : Field]

\* variant: a validation that looks at the name only
RequiredPresentNameOnly(draft) == draft.fullName # ""

\* !(!newPatient.fullName || !newPatient.age || !newPatient.condition)
RequiredPresent(draft) ==
    draft.fullName # "" /\ draft.age # "" /\ draft.condition # ""

\* the submit handler up to its first await: the validation return, or
\* offline the await of initDB(), online the await of axios.post with the
\* current token
\* variant: the submit goes to the network whatever the connection state
SubmitBranchAlwaysPost(online) == "post"

\* if (!isOnline) { ... db.put('pending', offlinePatient) ...; return } else POST
SubmitBranch(online) == IF ~online THEN "put" ELSE "post"

HandlePatientSubmit(maxCreates, draft) ==
    /\ Mounted
    /\ auth.isAuthenticated
    /\ IF ~RequiredPresent(draft)
       THEN \* toast.error('Name, age and condition are required'); return
            /\ formToast' = "required"
            /\ UNCHANGED <<nextUid, creates>>
       ELSE /\ nextUid <= maxCreates
            /\ nextUid' = nextUid + 1
            /\ creates' = creates \cup
                  {[uid |-> nextUid, draft |-> draft,
                    pc |-> SubmitBranch(isOnline),
                    tok |-> auth.token, live |-> TRUE]}
            /\ UNCHANGED formToast
    /\ UNCHANGED <<envVars, server, authVars, dashVars, storeVars, passes, fetches,
                   savedLocal, listSignal, syncCall, deleted, verify, reloads>>

\* offline branch: initDB and db.put('pending', offlinePatient) settle, then
\*   setPatients(prev => [...prev, offlinePatient]); toast.success('Patient saved locally! ...')
CreatePutDone(c, now, ok) ==
    /\ c \in creates
    /\ c.pc = "put"
    /\ now \in Now(clock)
    /\ creates' = creates \ {c}
    /\ IF ok
       THEN LET offlinePatient == OfflinePatient(c.uid, now)
            IN  /\ clock' = now
                /\ pendingStore' = Put(pendingStore, offlinePatient)
                /\ patients' = IF c.live THEN Append(patients, offlinePatient) ELSE patients
                /\ savedLocal' = Append(savedLocal, c.uid)
       ELSE \* catch: toast.error('Failed to save patient locally')
            UNCHANGED <<clock, pendingStore, patients, savedLocal>>
    /\ UNCHANGED <<navOnline, validTokens, nextTok, server, authVars, isOnline, syncStatus, patientsStore,
                   passes, fetches, nextUid, listSignal, formToast, syncCall, deleted, verify, reloads>>

\* online branch: the POST settles
CreatePostDone(c, outcome) ==
    /\ c \in creates
    /\ c.pc = "post"
    /\ outcome \in RequestOutcomes(c.tok)
    /\ IF outcome = "ok"
       THEN /\ server' = Append(server, ServerRecord(c.uid, Len(server) + 1))
            /\ patients' = IF c.live
                           THEN Append(patients, ServerRecord(c.uid, Len(server) + 1))
                           ELSE patients
            /\ UNCHANGED <<authVars, passes, fetches>>
       ELSE IF outcome = "401"
       THEN \* logout(); router.push('/login')
            /\ LogoutEffects
            /\ passes' = Detach(passes)
            /\ fetches' = DetachSet(fetches)
            /\ UNCHANGED <<server, patients>>
       ELSE UNCHANGED <<server, patients, authVars, passes, fetches>>
    /\ creates' = IF outcome = "401" THEN DetachSet(creates \ {c}) ELSE creates \ {c}
    /\ UNCHANGED <<envVars, isOnline, syncStatus, storeVars, nextUid, listSignal, formToast, syncCall, savedLocal, deleted, verify, reloads>>

\* --------------------------------------------------------------- fetchPatients
\* what GET /patients returns: the records created and not deleted since
ServerList == SelectSeq(server, LAMBDA r : r.id.n \notin deleted)

\* DELETE /patients/{id} is accepted by the backend for one of its records
DeleteAtServer(n) ==
    /\ n \in 1..Len(server)
    /\ n \notin deleted
    /\ deleted' = deleted \cup {n}
    /\ UNCHANGED <<envVars, server, authVars, dashVars, storeVars, passes, creates,
                   fetches, nextUid, listSignal, formToast, syncCall, savedLocal, verify, reloads>>

\* tx.objectStore('patients').put(patient) for every returned patient
PutAll(store, recs) ==
    [k \in (DOMAIN store) \cup {recs[i].id.n : i \in 1..Len(recs)} |->
        IF \E i \in 1..Len(recs) : recs[i].id.n = k
        THEN recs[CHOOSE i \in 1..Len(recs) : recs[i].id.n = k]
        ELSE store[k]]

\* axios.get settles: setPatients(response.data) then the cache write starts,
\* or the catch block starts reading the cache
FetchGetDone(f, outcome) ==
    /\ f \in fetches
    /\ f.pc = "get"
    /\ outcome \in RequestOutcomes(f.tok)
    /\ IF outcome = "ok"
       THEN /\ patients' = IF f.live THEN ServerList ELSE patients
            /\ fetches' = (fetches \ {f}) \cup {[f EXCEPT !.pc = "cacheWrite", !.data = ServerList, !.got = TRUE]}
       ELSE /\ UNCHANGED patients
            /\ fetches' = (fetches \ {f}) \cup {[f EXCEPT !.pc = "cacheRead"]}
    /\ UNCHANGED <<envVars, server, authVars, isOnline, syncStatus, storeVars,
                   passes, creates, nextUid, listSignal, formToast, syncCall, savedLocal, deleted, verify, reloads>>

\* initDB and the readwrite transaction of puts settle
FetchCacheWriteDone(f, ok) ==
    /\ f \in fetches
    /\ f.pc = "cacheWrite"
    /\ IF ok
       THEN /\ patientsStore' = PutAll(patientsStore, f.data)
            /\ fetches' = fetches \ {f}
            /\ listSignal' = IF f.live THEN "server" ELSE listSignal
       ELSE \* the rejection lands in the same catch as a failed GET
            /\ UNCHANGED <<patientsStore, listSignal>>
            /\ fetches' = (fetches \ {f}) \cup {[f EXCEPT !.pc = "cacheRead", !.data = <<>>]}
    /\ UNCHANGED <<envVars, server, authVars, dashVars, pendingStore,
                   passes, creates, nextUid, formToast, syncCall, savedLocal, deleted, verify, reloads>>

\* variant: a fallback that ignores the cache and shows an empty list
CacheFallbackEmpty(store) == <<>>

\* const cached = await db.getAll('patients'), the value given to setPatients
CacheFallback(store) == GetAll(store)

\* catch block: the cache read settles; setPatients(cached) or the inner catch
FetchCacheReadDone(f, ok) ==
    /\ f \in fetches
    /\ f.pc = "cacheRead"
    /\ fetches' = fetches \ {f}
    /\ patients' = IF ok /\ f.live THEN CacheFallback(patientsStore) ELSE patients
    \* toast.error('Using cached data - offline mode') / ('Failed to load patient data')
    /\ listSignal' = IF ~f.live THEN listSignal ELSE IF ok THEN "cached" ELSE "failed"
    /\ UNCHANGED <<envVars, server, authVars, isOnline, syncStatus, storeVars,
                   passes, creates, nextUid, formToast, syncCall, savedLocal, deleted, verify, reloads>>

\* ------------------------------------------------------------------ session
\* DashboardPage mounts: state is initialised, the mount effect registers
\* handleOnline (capturing this render's token) and sets isOnline from
\* navigator.onLine
MountEffects(tok) ==
    /\ page' = "dashboard"
    /\ closureToken' = tok
    /\ isOnline' = navOnline
    /\ syncStatus' = InitialSyncStatus
    /\ patients' = <<>>
    /\ listSignal' = "none"
    /\ formToast' = "none"
    /\ syncCall' = "none"

\* login page: POST /auth/login, login(access_token), router.push('/dashboard')
Login ==
    /\ page = "login"
    /\ navOnline
    /\ nextTok <= MaxLogins
    /\ nextTok' = nextTok + 1
    /\ validTokens' = validTokens \cup {nextTok}
    /\ storedToken' = nextTok
    /\ auth' = [token |-> nextTok, isAuthenticated |-> TRUE, isLoading |-> FALSE]
    /\ MountEffects(nextTok)
    /\ fetches' = fetches \cup {StartFetch(nextTok)}
    /\ UNCHANGED <<navOnline, clock, server, storeVars, passes, creates,
                   nextUid, savedLocal, deleted, verify, reloads>>

\* handleLogout
Logout ==
    /\ Mounted
    /\ auth.isAuthenticated
    /\ LogoutEffects
    /\ passes' = Detach(passes)
    /\ creates' = DetachSet(creates)
    /\ fetches' = DetachSet(fetches)
    /\ UNCHANGED <<envVars, server, dashVars, storeVars, nextUid, listSignal, formToast, syncCall, savedLocal, deleted, verify, reloads>>

\* the browser reloads the dashboard: every running async function is gone,
\* AuthProvider starts with token null and isLoading true, DashboardPage mounts
Reload ==
    /\ Mounted
    /\ reloads < MaxReloads
    /\ reloads' = reloads + 1
    /\ auth' = [token |-> NoToken, isAuthenticated |-> FALSE, isLoading |-> TRUE]
    /\ MountEffects(NoToken)
    /\ passes' = <<>>
    /\ creates' = {}
    /\ fetches' = {}
    /\ verify' = AuthFetch(storedToken, DefaultRetries)
    /\ UNCHANGED <<envVars, server, storedToken, storeVars, nextUid, savedLocal, deleted>>

\* authFetch's catch retries an aborted attempt as well
ShouldRetryAfterAbort(retries, outcome) == retries > 0

\* authFetch's catch: retries > 0 && !error.message.includes('aborted')
ShouldRetry(retries, outcome) == retries > 0 /\ outcome # "aborted"

\* an attempt of initializeAuth's authFetch settles: the call resolves and
\* initializeAuth authenticates, or the catch of authFetch schedules the retry,
\* or the call rejects with the error of this attempt and initializeAuth's
\* catch calls logout()
InitializeAuth(outcome) ==
    /\ auth.isLoading
    /\ verify.pc = "fetch"
    /\ outcome \in AttemptOutcomes(verify.tok)
    /\ IF storedToken # NoToken /\ outcome = "ok"
       THEN /\ auth' = [token |-> storedToken, isAuthenticated |-> TRUE, isLoading |-> FALSE]
            /\ fetches' = IF Mounted THEN fetches \cup {StartFetch(storedToken)} ELSE fetches
            /\ verify' = [verify EXCEPT !.pc = "resolved", !.seen = Append(@, outcome)]
            /\ UNCHANGED <<storedToken, page, closureToken, passes, creates>>
       ELSE IF ShouldRetry(verify.retries, outcome)
       THEN /\ verify' = [verify EXCEPT !.pc = "wait", !.seen = Append(@, outcome)]
            /\ UNCHANGED <<authVars, passes, creates, fetches>>
       ELSE /\ LogoutEffects
            /\ verify' = [verify EXCEPT !.pc = "rejected", !.seen = Append(@, outcome),
                                          !.error = outcome]
            /\ passes' = Detach(passes)
            /\ creates' = DetachSet(creates)
            /\ fetches' = DetachSet(fetches)
    /\ UNCHANGED <<envVars, server, dashVars, storeVars, nextUid, listSignal, formToast, syncCall, savedLocal, deleted, reloads>>

\* the 1 s delay of authFetch's catch elapses: authFetch(endpoint, options,
\* retries - 1) issues the same request again
AuthFetchRetry ==
    /\ verify.pc = "wait"
    /\ verify' = [verify EXCEPT !.pc = "fetch", !.retries = @ - 1]
    /\ UNCHANGED <<envVars, server, authVars, dashVars, storeVars, passes, creates, fetches,
                   nextUid, listSignal, formToast, syncCall, savedLocal, deleted, reloads>>

\* the whole client, from the login page
Next ==
    \/ ExpireSession
    \/ \E n \in 1..Len(server) : DeleteAtServer(n)
    \/ GoOffline
    \/ GoOnline(SessionPasses)
    \/ \E i \in 1..Len(passes), ok \in BOOLEAN : PassLoad(i, ok)
    \/ \E i \in 1..Len(passes), o \in {"ok", "fail", "401"} : PassPostDone(i, o)
    \/ \E i \in 1..Len(passes), ok \in BOOLEAN : PassDeleteDone(i, ok)
    \/ \E draft \in Drafts : HandlePatientSubmit(SessionCreates, draft)
    \/ \E c \in creates, now \in Now(clock), ok \in BOOLEAN : CreatePutDone(c, now, ok)
    \/ \E c \in creates, o \in {"ok", "fail", "401"} : CreatePostDone(c, o)
    \/ \E f \in fetches, o \in {"ok", "fail", "401"} : FetchGetDone(f, o)
    \/ \E f \in fetches, ok \in BOOLEAN : FetchCacheWriteDone(f, ok)
    \/ \E f \in fetches, ok \in BOOLEAN : FetchCacheReadDone(f, ok)
    \/ Login
    \/ Logout
    \/ Reload
    \/ \E o \in {"ok", "fail", "401", "aborted"} : InitializeAuth(o)
    \/ AuthFetchRetry

Spec == Init /\ [][Next]_vars

\* the whole client where every request attempt of authFetch settles (by a
\* response, a network error or the 8 s abort timer) and its 1 s retry timer
\* fires
AuthSpec ==
    /\ Init
    /\ [][Next]_vars
    /\ WF_vars(\E o \in {"ok", "fail", "401", "aborted"} : InitializeAuth(o))
    /\ WF_vars(AuthFetchRetry)

\* one life of the dashboard: the user has logged in, DashboardPage is mounted
\* with the token in its first render, the initial list fetch has completed
\* against an empty backend and cache
InitSync ==
    /\ navOnline = TRUE
    /\ clock = 0
    /\ server = <<>>
    /\ validTokens = {1}
    /\ nextTok = 2
    /\ storedToken = 1
    /\ auth = [token |-> 1, isAuthenticated |-> TRUE, isLoading |-> FALSE]
    /\ page = "dashboard"
    /\ closureToken = 1
    /\ isOnline = TRUE
    /\ syncStatus = InitialSyncStatus
    /\ patients = <<>>
    /\ pendingStore = EmptyStore
    /\ patientsStore = EmptyStore
    /\ passes = <<>>
    /\ creates = {}
    /\ fetches = {}
    /\ nextUid = 1
    /\ savedLocal = <<>>
    /\ listSignal = "none"
    /\ formToast = "none"
    /\ syncCall = "none"
    /\ deleted = {}
    /\ verify = NoCall
    /\ reloads = 0

NextSync ==
    \/ GoOffline
    \/ GoOnline(MaxPasses)
    \/ \E i \in 1..Len(passes), ok \in BOOLEAN : PassLoad(i, ok)
    \/ \E i \in 1..Len(passes), o \in {"ok", "fail"} : PassPostDone(i, o)
    \/ \E i \in 1..Len(passes), ok \in BOOLEAN : PassDeleteDone(i, ok)
    \/ \E draft \in Drafts : HandlePatientSubmit(MaxCreates, draft)
    \/ \E c \in creates, now \in Now(clock), ok \in BOOLEAN : CreatePutDone(c, now, ok)
    \/ \E c \in creates, o \in {"ok", "fail"} : CreatePostDone(c, o)

SyncSpec == InitSync /\ [][NextSync]_vars

\* ======================================================================
\* Properties
\* ======================================================================
Range(q) == {q[i] : i \in 1..Len(q)}
UidsOf(recs) == [i \in 1..Len(recs) |-> recs[i].uid]
IsPrefix(a, b) == Len(a) <= Len(b) /\ \A i \in 1..Len(a) : a[i] = b[i]
PendingUids == {pendingStore[k].uid : k \in DOMAIN pendingStore}
ServerUids == {server[i].uid : i \in 1..Len(server)}
SavedUids == Range(savedLocal)
\* the creation POSTs the backend accepted for the form with this uid
Accepted(u) == {i \in 1..Len(server) : server[i].uid = u}
\* position of an offline create in the order the creates completed
CreatedAt(u) == CHOOSE i \in 1..Len(savedLocal) : savedLocal[i] = u
PassRunning(p) == p.pc # "done"
WriteInFlight == creates # {} \/ \E i \in 1..Len(passes) : PassRunning(passes[i])

\* C1: for every record created offline at most one creation POST succeeds
\* on the server.
C1_NoDuplicateCreation ==
    \A u \in SavedUids : Cardinality(Accepted(u)) <= 1

\* C2: every record whose offline create reported success is still in the
\* pending collection or has been accepted by the server.
C2_NoLoss ==
    \A u \in SavedUids : u \in PendingUids \/ u \in ServerUids

\* C3: a pass deletes a record from pending only after a successful POST for
\* it, and a record whose POST succeeded is no longer in pending once that
\* pass has returned.
C3_PendingIffPosted ==
    \A i \in 1..Len(passes) :
        /\ Range(passes[i].removed) \subseteq Range(passes[i].accepted)
        /\ passes[i].pc = "done" =>
               \A u \in Range(passes[i].accepted) : u \notin PendingUids

\* C4: in every pass the records removed from pending are a prefix of the
\* retrieval order, no POST is attempted after the first failure, the
\* retrieval order is the order of creation, and a pass without failure
\* POSTs and removes every record it retrieved, in that order.
C4_HaltOnFirstFailure ==
    \A i \in 1..Len(passes) :
        LET p == passes[i]
            uids == UidsOf(p.pending)
        IN  /\ IsPrefix(p.removed, uids)
            /\ IsPrefix(p.posted, uids)
            /\ Len(p.posted) <= Len(p.removed) + 1
            /\ p.failure = "post" =>
                   p.pc = "done" /\ Len(p.posted) = Len(p.removed) + 1
            /\ \A j, k \in 1..Len(uids) :
                   j < k => CreatedAt(uids[j]) < CreatedAt(uids[k])
            /\ (p.pc = "done" /\ p.failure = "none") =>
                   p.posted = uids /\ p.removed = uids

\* pending A, B, C: a pass synced A and failed on B without touching C, and a
\* later pass POSTed B then C
C4_Witness ==
    \E i, j \in 1..Len(passes) :
        /\ i < j
        /\ passes[i].pc = "done" /\ passes[i].failure = "post"
        /\ Len(passes[i].pending) = 3
        /\ Len(passes[i].removed) = 1 /\ Len(passes[i].posted) = 2
        /\ passes[j].pc = "done" /\ passes[j].failure = "none"
        /\ passes[j].posted = SubSeq(UidsOf(passes[i].pending), 2, 3)

\* C5: a pass in which a POST failed leaves the status `error` when it
\* returns; it ends `up-to-date` only without a POST failure.
C5_StatusAfterFailedPass ==
    \A i \in 1..Len(passes) :
        (passes[i].pc = "done" /\ passes[i].failure = "post") =>
            passes[i].endStatus = "error"

\* C6: whenever the browser goes online while the dashboard is mounted, the
\* session holds a valid token and the pending collection is non-empty, a
\* sync pass is started.
C6_SyncStartsOnReconnect ==
    [][(/\ ~navOnline /\ navOnline'
        /\ Mounted
        /\ auth.token # NoToken /\ auth.token \in validTokens
        /\ DOMAIN pendingStore # {})
       => (/\ Len(passes') = Len(passes) + 1
           /\ passes'[Len(passes')].pc = "load")]_vars

\* an offline create completes in this step (its handler is c)
CreatePutSucceeds(c) ==
    /\ c \in creates /\ c.pc = "put"
    /\ savedLocal' = Append(savedLocal, c.uid)

\* C7: an offline create whose store write succeeds puts the record into
\* pending under a temporary identifier with offline = true and appends that
\* same record to the in-memory list of the dashboard that issued it.
C7_OfflineCreate ==
    [][\A c \in creates : (CreatePutSucceeds(c) /\ c.live) =>
          \E k \in DOMAIN pendingStore' :
              LET r == pendingStore'[k]
              IN  /\ r.uid = c.uid
                  /\ r.offline = TRUE
                  /\ r.id = TempId(k)
                  /\ patients' = Append(patients, r)]_vars

C7_Witness ==
    \E k \in DOMAIN pendingStore :
        /\ pendingStore[k].offline
        /\ pendingStore[k].id.kind = "offline"
        /\ pendingStore[k].uid \in SavedUids
        /\ \E n \in 1..Len(patients) : patients[n] = pendingStore[k]

\* C8: once a sync POST has received a 401 the session it was sent with has
\* been cleared.
C8_LogoutOn401 ==
    \A i \in 1..Len(passes) :
        passes[i].http = "401" =>
            (auth.token # passes[i].tok /\ storedToken # passes[i].tok)

\* the cache-fallback read of fetch f settles in this step
CacheReadSettles(f) ==
    /\ f \in fetches /\ f.pc = "cacheRead" /\ f.live
    /\ fetches' = fetches \ {f}
    /\ reloads' = reloads

\* C9 as stated: when the list call failed and the cache is populated, the
\* list is set to exactly the cached records.
C9_CacheFallbackAlways ==
    [][\A f \in fetches :
          (CacheReadSettles(f) /\ ~f.got /\ DOMAIN patientsStore # {}) =>
              patients' = GetAll(patientsStore)]_vars

\* C9 amended: when the list call failed and the cache is populated, the
\* operation ends with one of its two signals; if the cache could be read the
\* list is exactly the cached records, otherwise the list is left unchanged.
C9_CacheFallback ==
    [][\A f \in fetches :
          (CacheReadSettles(f) /\ ~f.got /\ DOMAIN patientsStore # {}) =>
              /\ listSignal' \in {"cached", "failed"}
              /\ listSignal' = "cached" => patients' = GetAll(patientsStore)
              /\ listSignal' = "failed" => patients' = patients]_vars

C9_Witness ==
    /\ listSignal = "cached"
    /\ DOMAIN patientsStore # {}
    /\ patients = GetAll(patientsStore)
    /\ Len(patients) > 0

\* C10: while no write is in flight, the pending collection is empty exactly
\* when the status is `up-to-date`.
C10_EmptyIffUpToDate ==
    ~WriteInFlight => ((DOMAIN pendingStore = {}) <=> (syncStatus = "up-to-date"))

\* a pass is invoked in this step
PassInvoked == Len(passes') = Len(passes) + 1

\* pass i returns in this step through the empty-queue branch
EmptyQueueReturn(i) ==
    /\ i <= Len(passes')
    /\ passes[i].pc = "load"
    /\ passes'[i].pc = "done"
    /\ passes'[i].failure = "none"

\* C11: a sync pass that finds the pending collection empty issues no POST,
\* changes neither store, the server nor the in-memory list from its
\* invocation to its return, and returns with the status `up-to-date`; this
\* holds for every such pass, so invoking it again gives the same state.
C11_EmptyQueueNoOp ==
    [][/\ PassInvoked => UNCHANGED <<pendingStore, patientsStore, patients, server>>
       /\ \A i \in 1..Len(passes) :
              EmptyQueueReturn(i) =>
                  /\ UNCHANGED <<pendingStore, patientsStore, patients, server>>
                  /\ DOMAIN pendingStore = {}
                  /\ passes'[i].posted = <<>>
                  /\ passes'[i].endStatus = "up-to-date"
                  /\ passes[i].live => syncStatus' = "up-to-date"]_vars

\* two passes in a row found the queue empty and the state is the same
\* after the second as after the first
C11_Witness ==
    /\ Len(passes) = 2
    /\ \A i \in 1..2 :
           /\ passes[i].pc = "done" /\ passes[i].failure = "none"
           /\ passes[i].pending = <<>> /\ passes[i].endStatus = "up-to-date"
    /\ syncStatus = "up-to-date"
    /\ DOMAIN pendingStore = {} /\ patients = <<>> /\ server = <<>>

\* pass i returns in this step while its dashboard is still mounted
PassReturns(i) ==
    /\ i <= Len(passes')
    /\ passes[i].pc # "done"
    /\ passes'[i].pc = "done"
    /\ passes[i].live

\* the in-memory list shows the server version of uid u and no placeholder
ShowsServerVersion(list, u) ==
    /\ \E n \in 1..Len(list) :
           list[n].uid = u /\ list[n].id.kind = "server" /\ ~list[n].offline
    /\ \A n \in 1..Len(list) : list[n].uid = u => ~list[n].offline

\* C12: when a pass returns, every record whose sync POST succeeded in it is
\* shown in the in-memory list as the server-returned record, in place of its
\* offline placeholder, and its pending entry is deleted.
C12_SyncedReplacesPlaceholder ==
    [][\A i \in 1..Len(passes) :
          PassReturns(i) =>
              \A u \in Range(passes'[i].accepted) :
                  /\ ShowsServerVersion(patients', u)
                  /\ u \notin {pendingStore'[k].uid : k \in DOMAIN pendingStore'}]_vars

\* temporary identifiers (their timestamps) of the records the passes have
\* synced and removed from pending
PromotedIds ==
    UNION {{passes[i].pending[k].id.n : k \in 1..Len(passes[i].removed)} :
              i \in 1..Len(passes)}

\* C13: an offline create is never assigned the temporary identifier of a
\* record that has already been synced and removed from pending.
C13_TempIdNotReused ==
    [][\A c \in creates :
          CreatePutSucceeds(c) =>
              \A k \in DOMAIN pendingStore' :
                  pendingStore'[k].uid = c.uid => k \notin PromotedIds]_vars

\* C14: a transition to online, with the dashboard mounted, runs the sync
\* engine once: it starts one pass whatever the number of pending records
\* (none when the engine's guard returns at once), and existing passes are
\* left as they are; a transition to offline starts no pass.
C14_OncePerTransition ==
    [][/\ (~navOnline /\ navOnline' /\ Mounted) =>
              /\ Len(passes') = Len(passes) + (IF closureToken = NoToken THEN 0 ELSE 1)
              /\ SubSeq(passes', 1, Len(passes)) = passes
       /\ (navOnline /\ ~navOnline') => passes' = passes]_vars

\* one online transition with three records pending has started one pass
C14_Witness ==
    /\ navOnline
    /\ Cardinality(DOMAIN pendingStore) = 3
    /\ Len(passes) = 1
    /\ passes[1].pc = "load"

\* the form of an in-flight create has its three required fields
Complete(draft) == draft.fullName # "" /\ draft.age # "" /\ draft.condition # ""

\* a submission is rejected by the validation in this step
SubmitRejected == formToast' = "required" /\ formToast # "required"

\* C15: a create is never started (no request, no store write) for a form
\* whose name, age or condition is missing, and the step that rejects such a
\* form changes neither store, the server, the in-memory list nor the set of
\* operations in flight, online and offline alike.
C15_ValidationBeforeIO ==
    [][/\ \A c \in creates' : Complete(c.draft)
       /\ SubmitRejected =>
              UNCHANGED <<pendingStore, patientsStore, server, patients,
                          creates, passes, fetches, syncStatus>>]_vars

\* a form was rejected while offline with one record already pending
C15_Witness ==
    /\ formToast = "required"
    /\ ~isOnline
    /\ creates = {}
    /\ Cardinality(DOMAIN pendingStore) = 1
    /\ Len(patients) = 1

\* an online event reaches the mounted dashboard in this step
OnlineEvent == ~navOnline /\ navOnline' /\ Mounted

RunningPasses == {i \in 1..Len(passes) : passes[i].live /\ PassRunning(passes[i])}

\* C17: at most one sync pass of the dashboard is in progress at any time.
C17_OnePassAtATime ==
    Cardinality(RunningPasses) <= 1

\* the POST of online create c settles in this step without a response
\* (the network is unreachable)
PostTransportError(c) ==
    /\ c \in creates /\ c.pc = "post"
    /\ creates' = creates \ {c}
    /\ ~navOnline
    /\ UNCHANGED <<page, auth, reloads>>

\* C18: an online create whose POST fails with a transport error is queued:
\* when the handler returns, its record is in the pending collection.
C18_TransportErrorQueues ==
    [][\A c \in creates :
          PostTransportError(c) =>
              c.uid \in {pendingStore'[k].uid : k \in DOMAIN pendingStore'}]_vars

\* the dashboard has finished loading online with an authenticated session
\* and records persisted in pending: no request or store operation of the
\* page is outstanding and no online event has arrived since the mount
LoadSettled ==
    /\ Mounted
    /\ auth.isAuthenticated /\ ~auth.isLoading
    /\ navOnline /\ isOnline
    /\ DOMAIN pendingStore # {}
    /\ fetches = {} /\ creates = {}
    /\ syncCall = "none"

\* C19: once a page load has settled online and authenticated with a
\* non-empty pending collection, a sync pass of this page has been started.
C19_SyncOnLoad ==
    LoadSettled => \E i \in 1..Len(passes) : passes[i].live

\* uids of the server records held in the confirmed cache after this step
CachedUids ==
    {patientsStore'[k].uid : k \in {j \in DOMAIN patientsStore' :
                                       patientsStore'[j].id.kind = "server"}}

\* C20: when a pass returns, the server version of every record it synced
\* (POST accepted, pending entry removed) is in the confirmed cache.
C20_SyncedInCache ==
    [][\A i \in 1..Len(passes) :
          (i <= Len(passes') /\ passes[i].pc # "done" /\ passes'[i].pc = "done") =>
              \A u \in Range(passes'[i].removed) : u \in CachedUids]_vars

\* the fetchPatients call f of the mounted dashboard returns in this step
FetchReturns(f) ==
    /\ f \in fetches /\ f.live
    /\ fetches' = fetches \ {f}
    /\ UNCHANGED <<page, auth, reloads>>

\* C21: a list operation whose GET succeeded ends with the in-memory list as
\* the GET's result set it, whatever the outcome of the cache write: the
\* rest of the operation does not replace the list.
C21_ListKeepsServerResult ==
    [][\A f \in fetches :
          (FetchReturns(f) /\ f.got) => patients' = patients]_vars

\* the cache write of fetch f succeeds in this step
CacheWriteSucceeds(f) ==
    /\ f \in fetches /\ f.pc = "cacheWrite"
    /\ fetches' = fetches \ {f}
    /\ UNCHANGED <<page, auth, reloads>>

\* C22: after a fetch whose cache write succeeds, the confirmed cache holds
\* exactly the records the server returned.
C22_CacheOverwritten ==
    [][\A f \in fetches :
          CacheWriteSucceeds(f) =>
              Range(GetAll(patientsStore')) = Range(f.data)]_vars

\* C23. A request that received 401 is not issued again with the same token
\* before the session is torn down: once an attempt of the verification
\* request has seen 401, the call neither waits to retry nor has another
\* attempt in flight.
C23_No401Retry ==
    (\E k \in 1..Len(verify.seen) : verify.seen[k] = "401") => verify.pc \notin {"wait", "fetch"}

\* requests issued so far by the authFetch call
Requests(call) == Len(call.seen) + (IF call.pc = "fetch" THEN 1 ELSE 0)

AuthFetchSettled == verify.pc \in {"resolved", "rejected"}

\* C30. authFetch always terminates: with the default retries = 2 the call
\* issues at most 3 requests, no request follows an attempt aborted by the
\* timeout, a call whose final attempt failed has rejected with the error of
\* that attempt, and every call eventually resolves or rejects.
C30_AuthFetchTerminates ==
    /\ [](/\ Requests(verify) <= DefaultRetries + 1
          /\ \A k \in 1..Len(verify.seen) :
                verify.seen[k] = "aborted" => k = Len(verify.seen) /\ verify.pc = "rejected"
          /\ verify.pc = "rejected" => verify.error = verify.seen[Len(verify.seen)]
          /\ verify.pc = "resolved" => verify.seen[Len(verify.seen)] = "ok")
    /\ (verify.pc = "fetch" ~> AuthFetchSettled)

\* three attempts failed and the call rejected with the error of the third
C30_Witness ==
    /\ verify.pc = "rejected"
    /\ Len(verify.seen) = DefaultRetries + 1
    /\ verify.retries = 0
    /\ verify.error = verify.seen[DefaultRetries + 1]
    /\ verify.seen[1] # verify.seen[DefaultRetries + 1]

\* pass i issues a POST in this step
IssuesPost(i) ==
    /\ i <= Len(passes')
    /\ Len(passes'[i].posted) > Len(passes[i].posted)

\* C24. Within one pass the POSTs are sequential: a pass has at most one POST
\* in flight (one more POST issued than answered, and only while it awaits
\* the response), and it issues the next POST only in the step in which the
\* previous POST has succeeded and its pending entry has been deleted.
C24_SequentialPosts ==
    [][\A i \in 1..Len(passes) :
          IssuesPost(i) =>
            /\ Len(passes'[i].posted) = Len(passes[i].posted) + 1
            /\ passes'[i].pc = "post"
            /\ passes[i].pc # "post"
            /\ Len(passes[i].posted) > 0 =>
                  LET prev == passes[i].posted[Len(passes[i].posted)]
                  IN  /\ passes[i].pc = "delete"
                      /\ prev \in Range(passes'[i].accepted)
                      /\ prev \in Range(passes'[i].removed)
                      /\ \A k \in DOMAIN pendingStore' : pendingStore'[k].uid # prev]_vars

\* a pass has its second POST in flight after the first record was accepted
\* and deleted
C24_Witness ==
    \E i \in 1..Len(passes) :
        /\ passes[i].pc = "post"
        /\ Len(passes[i].posted) = 2
        /\ passes[i].removed = <<passes[i].posted[1]>>

\* pass i hits a failure in this step
PassFails(i) ==
    /\ i <= Len(passes')
    /\ passes[i].failure = "none"
    /\ passes'[i].failure # "none"

\* C25. A sync pass never propagates an exception: on every failure (POST,
\* pending-store open/read, pending-store delete) the pass completes normally
\* and the failure is reported through the sync status, which is `error` once
\* the failure has been handled.
C25_FailureReportedInStatus ==
    [][\A i \in 1..Len(passes) :
          (PassFails(i) /\ passes[i].live) =>
            /\ passes'[i].pc = "done"
            /\ syncStatus' = "error"]_vars

\* the create leaves the set of running creates in this step
CreateSettles(c) ==
    /\ c \in creates
    /\ \A d \in creates' : d.uid # c.uid
    /\ UNCHANGED <<page, auth, reloads>>

\* C26. An offline create issues no network request, whether the local store
\* write succeeds or fails: a submit made while isOnline is false starts no
\* POST, and a create on the offline branch never turns into a POST and
\* settles without anything reaching the server.
C26_OfflineCreateNoRequest ==
    [][/\ (~isOnline /\ nextUid' > nextUid) =>
             \A c \in creates' : c.uid = nextUid => c.pc = "put"
       /\ \A c \in creates :
             c.pc = "put" =>
               /\ \A d \in creates' : d.uid = c.uid => d.pc = "put"
               /\ CreateSettles(c) => server' = server]_vars

\* offline, one create was saved locally and the write of another failed;
\* nothing has reached the server
C26_Witness ==
    /\ ~isOnline
    /\ creates = {}
    /\ Len(savedLocal) = 1
    /\ nextUid = 3
    /\ server = <<>>
    /\ passes = <<>>

\* C27. Two distinct offline creates get different temporary identifiers,
\* also within one millisecond: the put of an offline create adds a new key
\* to pending and never replaces a record that is still there.
C27_DistinctTempIds ==
    [][Len(savedLocal') > Len(savedLocal) =>
          /\ DOMAIN pendingStore \subseteq DOMAIN pendingStore'
          /\ DOMAIN pendingStore' # DOMAIN pendingStore
          /\ \A k \in DOMAIN pendingStore : pendingStore'[k] = pendingStore[k]]_vars

\* C28. The merge removes from the list only the placeholders of the records
\* synced in that pass: a placeholder whose record is still in pending when
\* the pass returns (its POST failed, it came after the failed record, or it
\* was created while the pass was in flight) is still in the list with
\* offline = true.
C28_MergeKeepsPending ==
    [][\A i \in 1..Len(passes) :
          (PassReturns(i) /\ passes[i].live) =>
            \A k \in 1..Len(patients) :
              (/\ patients[k].offline
               /\ \E key \in DOMAIN pendingStore' : pendingStore'[key].uid = patients[k].uid)
                => \E j \in 1..Len(patients') : patients'[j] = patients[k]]_vars

\* C29. The in-memory list never contains two entries with the same
\* identifier, whatever the interleaving of an in-flight list fetch with an
\* online create or a sync merge.
C29_NoDuplicateIds ==
    \A i, j \in 1..Len(patients) : i # j => patients[i].id # patients[j].id

====
